---- MODULE Spec2Model ----
(***************************************************************************)
(* Model of github_stock_updater.py: NotionStockUpdater (Alpha Vantage     *)
(* quote fetch, Notion database create/update) and main().                 *)
(*                                                                         *)
(* Strings the code inspects (ticker symbols, numeric fields of the quote) *)
(* are sequences of one-character strings, so that upper(), replace() and  *)
(* float() are computed character by character.  Python dicts are          *)
(* functions whose DOMAIN is the set of keys present; a missing key is a   *)
(* key outside the DOMAIN.  Numbers are integers counted in thousandths.   *)
(***************************************************************************)
EXTENDS Integers, Sequences, FiniteSets, TLC

VARIABLES
    env,                \* os.environ: the two credentials main() reads
    stock_symbols,      \* the list update_stocks iterates over
    init_database,      \* rows of the Notion database when the process starts
    database,           \* rows of the Notion database now (remote state)
    pc,                 \* position of the single thread of control
    i,                  \* loop index of update_stocks (1-based here)
    existing_entries,   \* result of the one query_database() call
    response,           \* the provider's answer to the current get_stock_data call
    stock_data,         \* result of get_stock_data for the current symbol
    successful_updates,
    failed_updates,
    calls,              \* history: network calls and sleeps, in issue order
    reported,           \* the two numbers of the final summary, once printed
    exit_code           \* << >> while running, then << status >>

vars == << env, stock_symbols, init_database, database, pc, i, existing_entries,
           response, stock_data, successful_updates, failed_updates, calls,
           reported, exit_code >>

\* ------------------------------------------------------------------ bounds
MaxSymbols == 2
MaxRows == 2

\* time.sleep(12)
RATE_LIMIT_DELAY == 12

\* ----------------------------------------------------------------- Python
None == [type |-> "None"]
EmptyDict == [k \in {} |-> k]

DictGet(d, k, default) == IF k \in DOMAIN d THEN d[k] ELSE default

\* str.upper(), on the letters the model's tickers use
UpperChar(c) ==
    CASE c = "f" -> "F"
      [] c = "g" -> "G"
      [] c = "e" -> "E"
      [] OTHER -> c

Upper(s) == [k \in DOMAIN s |-> UpperChar(s[k])]

\* str.replace(old, "") for a one-character old
Remove(s, old) == SelectSeq(s, LAMBDA c : c # old)

Digits == {"0", "1", "2", "3", "4", "5", "6", "7", "8", "9"}

DigitVal(c) ==
    CASE c = "0" -> 0 [] c = "1" -> 1 [] c = "2" -> 2 [] c = "3" -> 3
      [] c = "4" -> 4 [] c = "5" -> 5 [] c = "6" -> 6 [] c = "7" -> 7
      [] c = "8" -> 8 [] c = "9" -> 9

Unsigned(s) == IF Len(s) > 0 /\ s[1] \in {"+", "-"} THEN Tail(s) ELSE s

DotPositions(u) == {k \in DOMAIN u : u[k] = "."}

\* float(s) raises ValueError unless s is a decimal literal (the literals
\* "nan", "inf", exponents and surrounding blanks are outside the inputs)
IsFloatLiteral(s) ==
    LET u == Unsigned(s)
        dots == DotPositions(u)
    IN  /\ Cardinality(dots) <= 1
        /\ (DOMAIN u) \ dots # {}
        /\ \A k \in (DOMAIN u) \ dots : u[k] \in Digits

RECURSIVE DigitsValue(_)
DigitsValue(ds) ==
    IF ds = << >> THEN 0
    ELSE 10 * DigitsValue(SubSeq(ds, 1, Len(ds) - 1)) + DigitVal(ds[Len(ds)])

\* float(s) of a decimal literal with at most three decimals, in thousandths
ParseFloat(s) ==
    LET u == Unsigned(s)
        dots == DotPositions(u)
        dot == IF dots = {} THEN Len(u) + 1 ELSE CHOOSE k \in dots : TRUE
        whole == SubSeq(u, 1, dot - 1)
        frac == SubSeq(u, dot + 1, Len(u))
        digit(k) == IF k <= Len(frac) THEN DigitVal(frac[k]) ELSE 0
        magnitude == 1000 * DigitsValue(whole)
                        + 100 * digit(1) + 10 * digit(2) + digit(3)
    IN  IF Len(s) > 0 /\ s[1] = "-" THEN 0 - magnitude ELSE magnitude

\* round(x, 2): to the nearest hundredth, ties to even
Round2(m) ==
    LET q == m \div 10
        r == m % 10
    IN  IF r < 5 THEN 10 * q
        ELSE IF r > 5 THEN 10 * (q + 1)
        ELSE IF q % 2 = 0 THEN 10 * q ELSE 10 * (q + 1)

\* int(x): truncation toward zero, result in units
IntOf(m) == IF m >= 0 THEN m \div 1000 ELSE 0 - ((0 - m) \div 1000)

\* --------------------------------------------------------- get_stock_data
\* quote fields whose float() is not guarded: a ValueError leaves the function
StrictNumericKeys ==
    {"05. price", "08. previous close", "09. change", "06. volume",
     "02. open", "03. high", "04. low"}

ZeroText == << "0" >>
ZeroPercentText == << "0", "%" >>

\* the dict literal returned on success (lines 49-73)
QuoteRecord(symbol, quote) ==
    LET change_percent == Remove(DictGet(quote, "10. change percent", ZeroPercentText), "%")
        percent_change == IF IsFloatLiteral(change_percent)
                          THEN ParseFloat(change_percent) ELSE 0
    IN  [ symbol |-> DictGet(quote, "01. symbol", Upper(symbol)),
          current_price |-> Round2(ParseFloat(DictGet(quote, "05. price", ZeroText))),
          previous_close |-> Round2(ParseFloat(DictGet(quote, "08. previous close", ZeroText))),
          price_change |-> Round2(ParseFloat(DictGet(quote, "09. change", ZeroText))),
          percent_change |-> Round2(percent_change),
          volume |-> IntOf(ParseFloat(DictGet(quote, "06. volume", ZeroText))),
          open_price |-> ParseFloat(DictGet(quote, "02. open", ZeroText)),
          high_price |-> ParseFloat(DictGet(quote, "03. high", ZeroText)),
          low_price |-> ParseFloat(DictGet(quote, "04. low", ZeroText)),
          latest_trading_day |-> DictGet(quote, "07. latest trading day", << >>),
          last_updated |-> "utcnow" ]

\* float(text), with 0 where the text is no decimal literal
FloatOrZero(text) == IF IsFloatLiteral(text) THEN ParseFloat(text) ELSE 0

\* variant: every numeric field is parsed the way the percent field is, a
\* non-numeric text giving 0 instead of ending the call
get_stock_data_Tolerant(symbol, resp) ==
    IF resp.error THEN None
    ELSE IF "Error Message" \in DOMAIN resp.data THEN None
    ELSE IF "Note" \in DOMAIN resp.data THEN None
    ELSE LET quote == DictGet(resp.data, "Global Quote", EmptyDict)
             zeroed == [k \in DOMAIN quote |->
                          IF k \in StrictNumericKeys /\ ~IsFloatLiteral(quote[k])
                          THEN ZeroText ELSE quote[k]]
         IN  IF DOMAIN quote = {} THEN None ELSE QuoteRecord(symbol, zeroed)

\* variant: the "if not quote" test is missing, so a response without quote
\* payload is parsed into a record of defaults
get_stock_data_NoEmptyCheck(symbol, resp) ==
    IF resp.error THEN None
    ELSE IF "Error Message" \in DOMAIN resp.data THEN None
    ELSE IF "Note" \in DOMAIN resp.data THEN None
    ELSE LET quote == DictGet(resp.data, "Global Quote", EmptyDict)
         IN  IF \E k \in StrictNumericKeys :
                    ~IsFloatLiteral(DictGet(quote, k, ZeroText))
             THEN None
             ELSE QuoteRecord(symbol, quote)

\* resp: [error |-> TRUE] when requests.get / raise_for_status / json() raise,
\* else [error |-> FALSE, data |-> the decoded JSON object]
get_stock_data(symbol, resp) ==
    IF resp.error THEN None
    ELSE IF "Error Message" \in DOMAIN resp.data THEN None
    ELSE IF "Note" \in DOMAIN resp.data THEN None
    ELSE LET quote == DictGet(resp.data, "Global Quote", EmptyDict)
         IN  IF DOMAIN quote = {} THEN None
             ELSE IF \E k \in StrictNumericKeys :
                        ~IsFloatLiteral(DictGet(quote, k, ZeroText))
                  THEN None
                  ELSE QuoteRecord(symbol, quote)

\* ---------------------------------------------------- find_existing_entry
\* variant: the symbols are compared without upper()
RECURSIVE find_existing_entry_CaseSensitive(_, _)
find_existing_entry_CaseSensitive(symbol, entries) ==
    IF entries = << >> THEN None
    ELSE LET entry == Head(entries)
             rest == Tail(entries)
             symbol_prop == DictGet(DictGet(entry, "properties", EmptyDict),
                                    "Symbol", EmptyDict)
             rich_text == DictGet(symbol_prop, "rich_text", << >>)
         IN  IF Len(rich_text) = 0
             THEN find_existing_entry_CaseSensitive(symbol, rest)
             ELSE IF \/ "text" \notin DOMAIN rich_text[1]
                     \/ "content" \notin DOMAIN rich_text[1].text
                  THEN find_existing_entry_CaseSensitive(symbol, rest)
                  ELSE IF rich_text[1].text.content = symbol
                       THEN IF "id" \in DOMAIN entry
                            THEN entry.id
                            ELSE find_existing_entry_CaseSensitive(symbol, rest)
                       ELSE find_existing_entry_CaseSensitive(symbol, rest)

RECURSIVE find_existing_entry(_, _)
find_existing_entry(symbol, entries) ==
    IF entries = << >> THEN None
    ELSE LET entry == Head(entries)
             rest == Tail(entries)
             symbol_prop == DictGet(DictGet(entry, "properties", EmptyDict),
                                    "Symbol", EmptyDict)
             rich_text == DictGet(symbol_prop, "rich_text", << >>)
         IN  IF Len(rich_text) = 0
             THEN find_existing_entry(symbol, rest)
             ELSE IF \/ "text" \notin DOMAIN rich_text[1]
                     \/ "content" \notin DOMAIN rich_text[1].text
                  THEN find_existing_entry(symbol, rest)     \* KeyError
                  ELSE IF Upper(rich_text[1].text.content) = Upper(symbol)
                       THEN IF "id" \in DOMAIN entry
                            THEN entry.id
                            ELSE find_existing_entry(symbol, rest)   \* KeyError
                       ELSE find_existing_entry(symbol, rest)

\* the "Symbol" property create_database_entry sends (lines 112-120)
SymbolProperty(text) == [rich_text |-> << [text |-> [content |-> text]] >>]

\* a page identifier (a UUID string in Notion: never empty, so always truthy)
PageId(n) == [page |-> n]

\* the row Notion stores for a successful create_database_entry
CreatedPage(id, record) ==
    [id |-> id, properties |-> [Symbol |-> SymbolProperty(record.symbol)]]

\* ------------------------------------------------------------------ inputs
Tickers == { << "F" >>, << "g", "e" >>, << "G", "E" >> }

SymbolLists == UNION { [1..n -> Tickers] : n \in 0..MaxSymbols }

\* os.environ: a credential is unset, set to the empty string, or set
CredentialNames == {"ALPHA_VANTAGE_API_KEY", "NOTION_TOKEN"}
Environments ==
    UNION { [present -> { << >>, << "k" >> }] : present \in SUBSET CredentialNames }

\* rows as the Notion query endpoint returns them; "Symbol" may be missing,
\* a property of another type, an empty rich-text list, or start with an
\* item that has no "text" (a mention or an equation) or no "content"
RowSymbols == { << "f" >>, << "G", "E" >> }
RowProperties ==
    { [Symbol |-> SymbolProperty(text)] : text \in RowSymbols }
        \cup { EmptyDict,
               [Symbol |-> [select |-> "F"]],
               [Symbol |-> [rich_text |-> << >>]],
               [Symbol |-> [rich_text |-> << [mention |-> "page"] >>]],
               [Symbol |-> [rich_text |-> << [text |-> [link |-> "url"]] >>]] }

Databases ==
    UNION { { [k \in 1..n |-> [id |-> PageId(k), properties |-> props[k]]] :
                props \in [1..n -> RowProperties] } : n \in 0..MaxRows }

\* provider responses; the quote echoes the requested ticker in upper case
NetworkError == [error |-> TRUE]
Json(data) == [error |-> FALSE, data |-> data]
ApiError == Json("Error Message" :> "Invalid API call")
RateLimited == Json("Note" :> "5 calls per minute")
NoData == Json(EmptyDict)
EmptyQuote == Json("Global Quote" :> EmptyDict)

PriceText == << "1", ".", "2", "3", "6" >>
ChangeText == << "-", "0", ".", "1", "2", "5" >>
PercentText == << "-", "9", ".", "1", "9", "%" >>
VolumeText == << "1", "2", "0", "0" >>
DayText == << "1", "1", "-", "0", "1" >>
NotANumber == << "N", "/", "A" >>

FullQuote(symbol) ==
    [k \in StrictNumericKeys |->
        IF k = "09. change" THEN ChangeText
        ELSE IF k = "06. volume" THEN VolumeText ELSE PriceText]
    @@ ("01. symbol" :> Upper(symbol))
    @@ ("10. change percent" :> PercentText)
    @@ ("07. latest trading day" :> DayText)

Responses(symbol) ==
    { NetworkError, ApiError, RateLimited, NoData, EmptyQuote,
      Json("Global Quote" :> FullQuote(symbol)),
      Json("Global Quote" :> (("05. price" :> NotANumber) @@ FullQuote(symbol))) }

\* every shape of the quote object: each field missing, numeric or not
\* numeric (the percent field also as a bare "%")
PercentNotANumber == << "N", "/", "A", "%" >>
BarePercent == << "%" >>
OtherKeys == {"01. symbol", "10. change percent", "07. latest trading day"}

\* the text of field k under a choice: "given" is the provider's usual text
FieldText(symbol, k, choice) ==
    IF choice = "given" THEN FullQuote(symbol)[k]
    ELSE IF choice = "bare" THEN BarePercent
    ELSE IF k = "10. change percent" THEN PercentNotANumber
    ELSE NotANumber

FieldChoices ==
    { strict @@ other :
        strict \in [StrictNumericKeys -> {"absent", "given", "bad"}],
        other \in { c \in [OtherKeys -> {"absent", "given", "bad", "bare"}] :
                      /\ c["01. symbol"] \in {"absent", "given"}
                      /\ c["07. latest trading day"] \in {"absent", "given"} } }

QuoteObjects(symbol) ==
    { [k \in {f \in DOMAIN choice : choice[f] # "absent"} |->
            FieldText(symbol, k, choice[k])] : choice \in FieldChoices }

AllResponses(symbol) ==
    Responses(symbol) \cup { Json("Global Quote" :> q) : q \in QuoteObjects(symbol) }

\* ------------------------------------------------------------------- state
Init ==
    /\ env \in Environments
    /\ stock_symbols \in SymbolLists
    /\ init_database \in Databases
    /\ database = init_database
    /\ pc = "main"
    /\ i = 0
    /\ existing_entries = << >>
    /\ response = None
    /\ stock_data = None
    /\ successful_updates = 0
    /\ failed_updates = 0
    /\ calls = << >>
    /\ reported = None
    /\ exit_code = << >>

\* "not os.getenv(name)": the variable is unset or set to the empty string
NotSet(name) == name \notin DOMAIN env \/ env[name] = << >>

\* variant: only the API key is validated
MainValidateKeyOnly ==
    /\ pc = "main"
    /\ IF NotSet("ALPHA_VANTAGE_API_KEY")
       THEN /\ exit_code' = << 1 >>
            /\ pc' = "exited"
       ELSE /\ pc' = "query"
            /\ UNCHANGED exit_code
    /\ UNCHANGED << env, stock_symbols, init_database, database, i, existing_entries,
                    response, stock_data, successful_updates, failed_updates,
                    calls, reported >>

\* main(), lines 302-314: credential validation
MainValidate ==
    /\ pc = "main"
    /\ IF NotSet("ALPHA_VANTAGE_API_KEY") \/ NotSet("NOTION_TOKEN")
       THEN /\ exit_code' = << 1 >>
            /\ pc' = "exited"
       ELSE /\ pc' = "query"
            /\ UNCHANGED exit_code
    /\ UNCHANGED << env, stock_symbols, init_database, database, i, existing_entries,
                    response, stock_data, successful_updates, failed_updates,
                    calls, reported >>

\* the loop header: next symbol, or leave the loop
LoopNext(k) == IF k <= Len(stock_symbols) THEN "fetch" ELSE "summary"

\* update_stocks, lines 253-256: query_database() and the counters
QueryDatabase ==
    /\ pc = "query"
    /\ \E ok \in BOOLEAN :
        /\ existing_entries' = IF ok THEN database ELSE << >>
        /\ calls' = Append(calls, [op |-> "query", ok |-> ok])
    /\ successful_updates' = 0
    /\ failed_updates' = 0
    /\ i' = 1
    /\ pc' = LoopNext(1)
    /\ UNCHANGED << env, stock_symbols, init_database, database, response,
                    stock_data, reported, exit_code >>

\* update_stocks, line 262: the call of get_stock_data (lines 21-83),
\* answered by one of the given responses
Fetch(resps) ==
    /\ pc = "fetch"
    /\ \E resp \in resps :
        LET result == get_stock_data(stock_symbols[i], resp)
        IN  /\ response' = resp
            /\ stock_data' = result
            /\ calls' = Append(calls, [op |-> "fetch", symbol |-> stock_symbols[i],
                                       ok |-> result # None])
    /\ pc' = "fetched"
    /\ UNCHANGED << env, stock_symbols, init_database, database, i, existing_entries,
                    successful_updates, failed_updates, reported, exit_code >>

FetchQuote == Fetch(Responses(stock_symbols[i]))

\* variant: a failed fetch leaves the loop ("break" for "continue")
FetchReturnBreaks ==
    /\ pc = "fetched"
    /\ response' = None
    /\ IF stock_data = None
       THEN /\ failed_updates' = failed_updates + 1
            /\ i' = Len(stock_symbols) + 1
            /\ pc' = "summary"
       ELSE /\ pc' = "write"
            /\ UNCHANGED << failed_updates, i >>
    /\ UNCHANGED << env, stock_symbols, init_database, database, existing_entries,
                    stock_data, successful_updates, calls, reported, exit_code >>

\* variant: a fetched record is put aside and the next symbol is fetched
\* before anything is written
FetchReturnDefersWrite ==
    /\ pc = "fetched"
    /\ response' = None
    /\ IF stock_data = None
       THEN /\ failed_updates' = failed_updates + 1
            /\ i' = i + 1
            /\ pc' = LoopNext(i + 1)
       ELSE IF i < Len(stock_symbols)
            THEN /\ i' = i + 1
                 /\ pc' = "fetch"
                 /\ UNCHANGED failed_updates
            ELSE /\ pc' = "write"
                 /\ UNCHANGED << failed_updates, i >>
    /\ UNCHANGED << env, stock_symbols, init_database, database, existing_entries,
                    stock_data, successful_updates, calls, reported, exit_code >>

\* update_stocks, lines 263-265: a failed fetch is counted and the loop continues
FetchReturn ==
    /\ pc = "fetched"
    /\ response' = None
    /\ IF stock_data = None
       THEN /\ failed_updates' = failed_updates + 1
            /\ i' = i + 1
            /\ pc' = LoopNext(i + 1)
       ELSE /\ pc' = "write"
            /\ UNCHANGED << failed_updates, i >>
    /\ UNCHANGED << env, stock_symbols, init_database, database, existing_entries,
                    stock_data, successful_updates, calls, reported, exit_code >>

\* variant: the fetch is what is counted, so a failed write counts as success
CountWriteAsFetched(ok) ==
    /\ successful_updates' = successful_updates + 1
    /\ UNCHANGED failed_updates

\* variant: a failed write is counted nowhere
CountWriteDropsFailure(ok) ==
    /\ successful_updates' = IF ok THEN successful_updates + 1 ELSE successful_updates
    /\ UNCHANGED failed_updates

\* update_stocks, lines 280-283 and 286-289: count the outcome of the write
CountWrite(ok) ==
    /\ successful_updates' = IF ok THEN successful_updates + 1 ELSE successful_updates
    /\ failed_updates' = IF ok THEN failed_updates ELSE failed_updates + 1

\* update_stocks, lines 291-294: sleep unless this was the last symbol
AfterWrite ==
    IF i < Len(stock_symbols)
    THEN pc' = "sleep" /\ UNCHANGED i
    ELSE pc' = "summary" /\ i' = i + 1

\* update_stocks, lines 276-283, with update_database_entry
UpdateEntry ==
    /\ pc = "write"
    /\ LET existing_page_id == find_existing_entry(stock_symbols[i], existing_entries)
       IN  /\ existing_page_id # None
           /\ \E ok \in BOOLEAN :
                /\ calls' = Append(calls, [op |-> "update", symbol |-> stock_symbols[i],
                                           page_id |-> existing_page_id, ok |-> ok])
                /\ CountWrite(ok)
    /\ AfterWrite
    /\ UNCHANGED << env, stock_symbols, init_database, database, existing_entries,
                    response, stock_data, reported, exit_code >>

\* update_stocks, lines 276-278 and 284-289, with create_database_entry
CreateEntry ==
    /\ pc = "write"
    /\ find_existing_entry(stock_symbols[i], existing_entries) = None
    /\ \E ok \in BOOLEAN :
        /\ calls' = Append(calls, [op |-> "create", symbol |-> stock_symbols[i],
                                   ok |-> ok])
        /\ database' = IF ok
                       THEN Append(database,
                                   CreatedPage(PageId(Len(database) + 1), stock_data))
                       ELSE database
        /\ CountWrite(ok)
    /\ AfterWrite
    /\ UNCHANGED << env, stock_symbols, init_database, existing_entries, response,
                    stock_data, reported, exit_code >>

\* update_stocks, line 294
Sleep ==
    /\ pc = "sleep"
    /\ calls' = Append(calls, [op |-> "sleep", seconds |-> RATE_LIMIT_DELAY])
    /\ i' = i + 1
    /\ pc' = "fetch"
    /\ UNCHANGED << env, stock_symbols, init_database, database, existing_entries,
                    response, stock_data, successful_updates, failed_updates,
                    reported, exit_code >>

\* update_stocks, lines 296-299: the summary
Summary ==
    /\ pc = "summary"
    /\ reported' = [succeeded |-> successful_updates, failed |-> failed_updates]
    /\ pc' = "finish"
    /\ UNCHANGED << env, stock_symbols, init_database, database, i, existing_entries,
                    response, stock_data, successful_updates, failed_updates,
                    calls, exit_code >>

\* main(), line 344, and the interpreter's normal exit
MainReturn ==
    /\ pc = "finish"
    /\ exit_code' = << 0 >>
    /\ pc' = "done"
    /\ UNCHANGED << env, stock_symbols, init_database, database, i, existing_entries,
                    response, stock_data, successful_updates, failed_updates,
                    calls, reported >>

Next ==
    \/ MainValidate
    \/ QueryDatabase
    \/ FetchQuote
    \/ FetchReturn
    \/ UpdateEntry
    \/ CreateEntry
    \/ Sleep
    \/ Summary
    \/ MainReturn

Spec == Init /\ [][Next]_vars

\* ------------------------------------------------------ reading the history
IsFetch(c) == c.op = "fetch"
IsWrite(c) == c.op \in {"create", "update"}
IsSleep(c) == c.op = "sleep"

Fetches == SelectSeq(calls, IsFetch)
Writes == SelectSeq(calls, IsWrite)

SymbolsOf(cs) == [k \in DOMAIN cs |-> cs[k].symbol]

Count(cs, Test(_)) == Cardinality({k \in DOMAIN cs : Test(cs[k])})

FetchOk(c) == IsFetch(c) /\ c.ok
FetchFailed(c) == IsFetch(c) /\ ~c.ok
WriteOk(c) == IsWrite(c) /\ c.ok
WriteFailed(c) == IsWrite(c) /\ ~c.ok

\* the fetch of the current symbol is answered but its write is not issued yet
WritePending == pc \in {"fetched", "write"}

\* ------------------------------------------------------------------ claims

\* an upper bound on the number of steps the process still takes
StepsLeft ==
    LET later == 4 * (Len(stock_symbols) - i)
    IN  CASE pc = "main" -> 4 * Len(stock_symbols) + 10
          [] pc = "query" -> 4 * Len(stock_symbols) + 9
          [] pc = "fetch" -> later + 8
          [] pc = "fetched" -> later + 7
          [] pc = "write" -> later + 6
          [] pc = "sleep" -> later + 5
          [] pc = "summary" -> 2
          [] pc = "finish" -> 1
          [] OTHER -> 0

\* the fetches issued so far are the first symbols of the list, each once;
\* each fetched record gets its write attempt; the summary comes after the
\* whole list; the process is not stuck before it has exited
C1_FetchesArePrefix ==
    /\ Len(Fetches) <= Len(stock_symbols)
    /\ SymbolsOf(Fetches) = SubSeq(stock_symbols, 1, Len(Fetches))
    /\ Count(calls, IsWrite) + (IF WritePending /\ calls[Len(calls)].ok THEN 1 ELSE 0)
         = Count(calls, FetchOk)
    /\ reported # None => SymbolsOf(Fetches) = stock_symbols
    /\ exit_code # << >> \/ ENABLED Next

\* C1: every symbol of the list is fetched exactly once, in listed order,
\* whatever the outcome for the earlier symbols (the fetches issued so far
\* are always the first symbols of the list, each once; each fetched record
\* gets its write attempt), and the run always reaches its final summary:
\* no outcome leaves the process stuck before it has exited, every step
\* lowers a bound on the steps left, and the summary is printed only after
\* the whole list has been fetched.
C1_EverySymbolFetched ==
    /\ [] C1_FetchesArePrefix
    /\ [][StepsLeft' < StepsLeft /\ StepsLeft' >= 0]_vars

\* a run in which the first symbol failed at the fetch, the second at the
\* write, and the summary was still printed
C1_Witness ==
    /\ reported # None
    /\ Len(stock_symbols) = MaxSymbols
    /\ SymbolsOf(Fetches) = stock_symbols
    /\ FetchFailed(calls[2])
    /\ Count(calls, WriteFailed) = 1

\* C2: between every two consecutive fetch calls the fixed 12-second delay is
\* applied, whatever the outcome of the first of the two, and no delay is
\* applied after the fetch of the final symbol.
C2_DelayBetweenFetches ==
    /\ \A a, b \in DOMAIN calls :
          (a < b /\ IsFetch(calls[a]) /\ IsFetch(calls[b]))
              => \E k \in a..b : IsSleep(calls[k]) /\ calls[k].seconds = RATE_LIMIT_DELAY
    /\ \A k \in DOMAIN calls :
          IsSleep(calls[k]) => Count(SubSeq(calls, 1, k), IsFetch) < Len(stock_symbols)

\* C3 as stated: the reported counts are the counts of fetches that returned a
\* record and of fetches that failed, whatever the writes did.
C3_CountsAreFetchCounts ==
    reported # None =>
        /\ reported.succeeded = Count(calls, FetchOk)
        /\ reported.failed = Count(calls, FetchFailed)

\* C3 amended: the reported succeeded count is the number of symbols whose
\* fetch returned a record and whose create or update call succeeded; the
\* reported failed count is the number of failed fetches plus the number of
\* failed create or update calls.
C3_CountsAreWriteCounts ==
    reported # None =>
        /\ reported.succeeded = Count(calls, WriteOk)
        /\ reported.failed = Count(calls, FetchFailed) + Count(calls, WriteFailed)

\* a finished run with a failed fetch, a failed write and a successful write
C3_Witness ==
    /\ reported # None
    /\ Count(calls, FetchFailed) > 0
    /\ Count(calls, WriteFailed) > 0
    /\ reported.succeeded < Count(calls, FetchOk)

\* C4 as stated: no create or update call is issued before the last symbol's
\* fetch has completed, and a run issues one sink call if some fetch
\* succeeded and none otherwise.
C4_SinkOnceAfterAllFetches ==
    /\ Writes # << >> => Len(Fetches) = Len(stock_symbols)
    /\ reported # None =>
          Len(Writes) = (IF Count(calls, FetchOk) > 0 THEN 1 ELSE 0)

\* C4 amended: the create or update call for a symbol is issued directly
\* after that symbol's fetch returned a record and before the next symbol is
\* fetched; the sink is called once per fetched record (not once per run with
\* a batch), and not at all when no fetch succeeded.
C4_WriteFollowsItsFetch ==
    /\ \A k \in DOMAIN calls :
          IsWrite(calls[k]) =>
              /\ k > 1
              /\ FetchOk(calls[k - 1])
              /\ calls[k - 1].symbol = calls[k].symbol
    /\ \A k \in DOMAIN calls :
          FetchOk(calls[k]) =>
              IF k = Len(calls) THEN WritePending ELSE IsWrite(calls[k + 1])
    /\ Count(calls, FetchOk) = 0 => Writes = << >>

\* a write issued while a later symbol is still to be fetched
C4_Witness ==
    /\ pc = "sleep"
    /\ IsWrite(calls[Len(calls)])
    /\ Len(Fetches) < Len(stock_symbols)

\* the provider answered, and the answer carries "Error Message" or "Note" or
\* no quote payload
NoRecordResponse(resp) ==
    /\ resp # None
    /\ ~resp.error
    /\ \/ "Error Message" \in DOMAIN resp.data
       \/ "Note" \in DOMAIN resp.data
       \/ "Global Quote" \notin DOMAIN resp.data
       \/ DOMAIN resp.data["Global Quote"] = {}

\* the fetches whose outcome update_stocks has already acted on
SettledFetches ==
    IF WritePending THEN SubSeq(Fetches, 1, Len(Fetches) - 1) ELSE Fetches

\* the two steps that handle a response without a record
C5_NoRecordResponseStep ==
    /\ (pc = "fetch" /\ NoRecordResponse(response')) =>
          /\ stock_data' = None
          /\ ~calls'[Len(calls')].ok
          /\ UNCHANGED << successful_updates, failed_updates >>
    /\ (pc = "fetched" /\ NoRecordResponse(response)) =>
          /\ failed_updates' = failed_updates + 1
          /\ UNCHANGED << successful_updates, calls, database >>
          /\ pc' \in {"fetch", "summary"}

\* C5: a provider response with "Error Message" or "Note", or without quote
\* payload, gives no record; handling it adds exactly 1 to the failed count,
\* leaves the succeeded count alone and issues no call; and the create and
\* update calls of a run are issued for exactly the symbols whose fetch gave
\* a record, in listed order.
C5_FailedFetchIsNotWritten ==
    /\ [][C5_NoRecordResponseStep]_vars
    /\ [](SymbolsOf(Writes) = SymbolsOf(SelectSeq(SettledFetches, FetchOk)))

\* a provider error was answered after an earlier symbol had been written
C5_Witness ==
    /\ pc = "fetched"
    /\ NoRecordResponse(response)
    /\ "Note" \in DOMAIN response.data
    /\ Writes # << >>
    /\ failed_updates > 0

\* the text of a row's "Symbol" property, when the row has one
HasSymbolText(row) ==
    /\ "properties" \in DOMAIN row
    /\ "Symbol" \in DOMAIN row.properties
    /\ "rich_text" \in DOMAIN row.properties.Symbol
    /\ Len(row.properties.Symbol.rich_text) > 0
    /\ "text" \in DOMAIN row.properties.Symbol.rich_text[1]
    /\ "content" \in DOMAIN row.properties.Symbol.rich_text[1].text

SymbolText(row) == row.properties.Symbol.rich_text[1].text.content

CasePairs == { {"f", "F"}, {"g", "G"}, {"e", "E"} }

EqualIgnoringCase(a, b) ==
    /\ Len(a) = Len(b)
    /\ \A k \in DOMAIN a : a[k] = b[k] \/ {a[k], b[k]} \in CasePairs

Matching(rows, symbol) ==
    {k \in DOMAIN rows :
        HasSymbolText(rows[k]) /\ EqualIgnoringCase(SymbolText(rows[k]), symbol)}

First(S) == CHOOSE k \in S : \A j \in S : k <= j

\* the step that issues the write of the current record
C6_WriteStep ==
    pc = "write" =>
        LET matches == Matching(existing_entries, stock_data.symbol)
            call == calls'[Len(calls')]
        IN  /\ Len(calls') = Len(calls) + 1
            /\ IF matches # {}
               THEN /\ call.op = "update"
                    /\ call.page_id = existing_entries[First(matches)].id
               ELSE call.op = "create"

\* C6: for a fetched record and the queried rows: if some row's symbol text
\* equals the record's symbol ignoring case, one update call is issued, on
\* the identifier of the first such row, and no create call; otherwise one
\* create call and no update call.  Rows without a usable symbol text are
\* never matched and never stop the write from being issued.
C6_UpdateIffRowMatches ==
    /\ [][C6_WriteStep]_vars
    /\ [](pc = "write" => ENABLED (UpdateEntry \/ CreateEntry))

\* an update of the second row, whose text differs in case from the listed
\* symbol, after a first row without symbol text was skipped
C6_Witness ==
    /\ calls # << >>
    /\ calls[Len(calls)].op = "update"
    /\ calls[Len(calls)].page_id = PageId(2)
    /\ ~HasSymbolText(existing_entries[1])
    /\ SymbolText(existing_entries[2]) # calls[Len(calls)].symbol

UniqueSymbols(rows) ==
    \A a, b \in DOMAIN rows :
        (a # b /\ HasSymbolText(rows[a]) /\ HasSymbolText(rows[b]))
            => ~EqualIgnoringCase(SymbolText(rows[a]), SymbolText(rows[b]))

\* C7: a create call for a symbol is issued only when the database holds no
\* row with that symbol (ignoring case) at the time of the call; so a
\* database with at most one row per symbol before the run has at most one
\* row per symbol after every step of it.
C7_CreateOnlyIfAbsent ==
    /\ (pc = "write" /\ find_existing_entry(stock_symbols[i], existing_entries) = None)
          => Matching(database, stock_data.symbol) = {}
    /\ UniqueSymbols(init_database) => UniqueSymbols(database)

CredentialsMissing ==
    \E name \in CredentialNames : name \notin DOMAIN env \/ env[name] = << >>

\* C9: when the API key or the workspace token is absent (unset or empty)
\* the process exits with status 1 without having issued any network call;
\* in every other case the only exit status is 0, whatever calls failed, and
\* the process is never stuck before it has exited.
C9_ExitStatus ==
    /\ CredentialsMissing =>
          /\ calls = << >>
          /\ pc \in {"main", "exited"}
          /\ exit_code = (IF pc = "exited" THEN << 1 >> ELSE << >>)
    /\ ~CredentialsMissing =>
          /\ pc # "exited"
          /\ exit_code = (IF pc = "done" THEN << 0 >> ELSE << >>)
    /\ exit_code # << >> \/ ENABLED Next

\* exit status 0 after the query, a fetch and a write had all failed
C9_Witness ==
    /\ exit_code = << 0 >>
    /\ ~calls[1].ok
    /\ Count(calls, FetchFailed) > 0
    /\ Count(calls, WriteFailed) > 0

\* what one step may do to the two counters
C10_CounterStep ==
    /\ successful_updates' >= successful_updates
    /\ failed_updates' >= failed_updates
    /\ (successful_updates' + failed_updates')
          - (successful_updates + failed_updates) \in {0, 1}
    /\ successful_updates' > successful_updates =>
          /\ WriteOk(calls'[Len(calls')])
          /\ FetchOk(calls'[Len(calls') - 1])
          /\ Len(calls') = Len(calls) + 1

\* C10: once k symbols have been processed the two counters sum to k; each
\* symbol adds 1 to exactly one of them, to the succeeded counter only when
\* its fetch and its create or update call both succeeded; no counter ever
\* decreases; and the reported counts sum to the length of the list.
C10_CountersSumToProcessed ==
    /\ [][C10_CounterStep]_vars
    /\ [](successful_updates + failed_updates = Len(SettledFetches))
    /\ [](reported # None =>
            reported.succeeded + reported.failed = Len(stock_symbols))

\* a finished run of a full list with both counters raised
C10_Witness ==
    /\ reported # None
    /\ Len(stock_symbols) = MaxSymbols
    /\ reported.succeeded > 0
    /\ reported.failed > 0

\* ----------------------------------------------- get_stock_data on its own
\* one call of get_stock_data, over every shape of the provider's answer
InitQuote ==
    /\ env = [name \in CredentialNames |-> << "k" >>]
    /\ stock_symbols \in { << t >> : t \in Tickers }
    /\ init_database = << >>
    /\ database = << >>
    /\ pc = "fetch"
    /\ i = 1
    /\ existing_entries = << >>
    /\ response = None
    /\ stock_data = None
    /\ successful_updates = 0
    /\ failed_updates = 0
    /\ calls = << [op |-> "query", ok |-> TRUE] >>
    /\ reported = None
    /\ exit_code = << >>

FetchAnyQuote == Fetch(AllResponses(stock_symbols[i]))

SpecQuote == InitQuote /\ [][FetchAnyQuote]_vars

RecordFields ==
    {"symbol", "current_price", "previous_close", "price_change", "percent_change",
     "volume", "open_price", "high_price", "low_price", "latest_trading_day",
     "last_updated"}

\* the record field filled from a numeric quote field
FieldOf(k) ==
    CASE k = "05. price" -> "current_price"
      [] k = "08. previous close" -> "previous_close"
      [] k = "09. change" -> "price_change"
      [] k = "10. change percent" -> "percent_change"
      [] k = "06. volume" -> "volume"
      [] k = "02. open" -> "open_price"
      [] k = "03. high" -> "high_price"
      [] k = "04. low" -> "low_price"

NonNumericTexts == { NotANumber, << >> }

\* C8: get_stock_data returns either no record or a record with all eleven
\* fields, in which every numeric field missing from the quote is zero and a
\* missing trading day is empty.  A percent-change field that is not numeric
\* once "%" is stripped gives a record with percent_change 0; a non-numeric
\* value in any other numeric field gives no record.
C8_RecordIsWholeOrAbsent ==
    pc = "fetched" =>
        /\ stock_data = None \/ DOMAIN stock_data = RecordFields
        /\ (~response.error /\ "Global Quote" \in DOMAIN response.data
               /\ DOMAIN response.data = {"Global Quote"}
               /\ DOMAIN response.data["Global Quote"] # {}) =>
              LET quote == response.data["Global Quote"]
                  broken == \E k \in StrictNumericKeys \cap DOMAIN quote :
                                quote[k] \in NonNumericTexts
              IN  IF broken THEN stock_data = None
                  ELSE /\ stock_data # None
                       /\ \A k \in (StrictNumericKeys \cup {"10. change percent"})
                                      \ DOMAIN quote :
                             stock_data[FieldOf(k)] = 0
                       /\ "07. latest trading day" \notin DOMAIN quote
                             => stock_data.latest_trading_day = << >>
                       /\ ("10. change percent" \in DOMAIN quote
                             /\ Remove(quote["10. change percent"], "%") \in NonNumericTexts)
                             => stock_data.percent_change = 0

\* a record from a quote whose percent field is not numeric and whose price
\* is missing
C8_Witness ==
    /\ pc = "fetched"
    /\ stock_data # None
    /\ "Global Quote" \in DOMAIN response.data
    /\ DOMAIN response.data["Global Quote"] = {"10. change percent", "06. volume"}
    /\ response.data["Global Quote"]["10. change percent"] = PercentNotANumber
    /\ stock_data.percent_change = 0
    /\ stock_data.current_price = 0
    /\ stock_data.volume = 1200

====
